---- MODULE Spec2Model ----
(***************************************************************************)
(* Model of homework.py: a bot that polls the homework-review API and      *)
(* forwards status changes and failures to a Telegram chat.                *)
(*                                                                         *)
(* The module's string literals are ASCII renderings of the Russian        *)
(* literals of the source; distinct source texts stay distinct here.       *)
(***************************************************************************)
EXTENDS Integers, Sequences, FiniteSets, TLC

VARIABLES
    secrets,            \* PRACTICUM_TOKEN, TELEGRAM_TOKEN, TELEGRAM_CHAT_ID
    pc,                 \* position of main
    current_timestamp,  \* main: the cursor passed to get_api_answer
    last_error,         \* main: last error message handled
    response,           \* main: value returned by get_api_answer
    homework,           \* main: value returned by check_response
    message,            \* main: value returned by parse_status
    error,              \* main: the exception caught by `except Exception`
    error_message,      \* main: the message built by the handler
    validated,          \* check_response returned in this cycle
    stage,              \* the call of the cycle that raised
    fetched_with,       \* from_date of the request issued in this cycle
    delivered,          \* messages the chat received in this cycle
    status_failed,      \* status notification whose delivery failed in this cycle
    err_sent,           \* the handler of this cycle delivered error_message
    err_fresh,          \* error_message differed from last_error in the handler
    prev,               \* summary of the previous cycle
    slept               \* seconds slept since the last request

vars == <<secrets, pc, current_timestamp, last_error, response, homework,
          message, error, error_message, validated, stage, fetched_with,
          delivered, status_failed, err_sent, err_fresh, prev, slept>>

-----------------------------------------------------------------------------
(* Bounds of the model *)

\* longest homeworks list the API returns
MaxHomeworks == 2

(* Program constants *)

RETRY_TIME == 600

\* Python's None
None == "None"

\* JSON null / absent integer
NoDate == -1

\* int(time.time()) at startup
StartTime == 500

\* values the server reports as current_date
Dates == {1000, 2000}

SecretNames == {"PRACTICUM_TOKEN", "TELEGRAM_TOKEN", "TELEGRAM_CHAT_ID"}

HOMEWORK_STATUSES ==
    [approved  |-> "Rabota proverena: revyueru vsyo ponravilos. Ura!",
     reviewing |-> "Rabota vzyata na proverku revyuerom.",
     rejected  |-> "Rabota proverena: u revyuera est zamechaniya."]

ENDPOINT == "https://practicum.yandex.ru/api/user_api/homework_statuses/"

-----------------------------------------------------------------------------
(* Exceptions: a class name and the text passed to the constructor *)

NoExc == [kind |-> "", text |-> ""]

Raise(kind, text) == [kind |-> kind, text |-> text]

\* str(error): KeyError prints the repr of its argument, the others the text
Str(e) == IF e.kind = "KeyError" THEN "'" \o e.text \o "'" ELSE e.text

-----------------------------------------------------------------------------
(* Values of the API *)

\* a homework record: the keys it carries and their values
Homework(keys, name, status) ==
    [keys |-> keys, homework_name |-> name, status |-> status]

\* records the polling loop is driven with
LoopHomeworks ==
    { Homework({"homework_name", "status"}, "proj1", "approved"),
      Homework({"homework_name", "status"}, "proj2", "rejected"),
      Homework({"homework_name"}, "proj3", None) }

\* h.get(key)
HwGet(h, key) == IF key \in h.keys THEN h[key] ELSE None

HomeworkLists ==
    UNION { [1..n -> LoopHomeworks] : n \in 0..MaxHomeworks }

\* the value under "homeworks": a list, or something that is not a list
ListValue(items) == [type |-> "list", items |-> items, repr |-> "[...]"]

NonListValues ==
    { [type |-> "null", items |-> <<>>, repr |-> "None"],
      [type |-> "str",  items |-> <<>>, repr |-> "soon"] }

HomeworksValues == { ListValue(s) : s \in HomeworkLists } \cup NonListValues

AbsentValue == [type |-> "null", items |-> <<>>, repr |-> "None"]

ResponseKeys == {"homeworks", "current_date", "error", "code"}

\* a JSON object; a key that is absent holds a fixed filler
JsonObject(keys, hw, cd) ==
    [shape |-> "object", keys |-> keys,
     homeworks    |-> IF "homeworks" \in keys THEN hw ELSE AbsentValue,
     current_date |-> IF "current_date" \in keys THEN cd ELSE NoDate,
     error        |-> IF "error" \in keys THEN "maintenance" ELSE None,
     code         |-> IF "code" \in keys THEN "not_authenticated" ELSE None]

\* JSON null, and a JSON array in place of the object
JsonNull  == [shape |-> "null", keys |-> {}, homeworks |-> AbsentValue,
              current_date |-> NoDate, error |-> None, code |-> None]
JsonArray == [shape |-> "array", keys |-> {}, homeworks |-> AbsentValue,
              current_date |-> NoDate, error |-> None, code |-> None]

\* every record parse_status tells apart: each key present or absent, the
\* status one of the three of HOMEWORK_STATUSES or another one
AllHomeworks ==
    { Homework(k, IF "homework_name" \in k THEN n ELSE None,
                  IF "status" \in k THEN s ELSE None) :
        k \in SUBSET {"homework_name", "status"},
        n \in {"proj1", "proj2"},
        s \in {"approved", "reviewing", "rejected", "lost"} }

\* a well-formed response with one record
SingleRecordBodies ==
    { [shape |-> "object", keys |-> {"homeworks", "current_date"},
       homeworks |-> [type |-> "list", items |-> <<h>>, repr |-> "[...]"],
       current_date |-> 1000, error |-> None, code |-> None] :
        h \in AllHomeworks }

\* the bodies json() returns
Bodies ==
    { JsonObject(k, hw, cd) :
        k \in SUBSET ResponseKeys, hw \in HomeworksValues, cd \in Dates }
    \cup {JsonNull, JsonArray}
    \cup SingleRecordBodies

\* the value of `response` outside a cycle
NoResponse == JsonNull

\* response.get('current_date')
GetDate(r) == IF "current_date" \in r.keys THEN r.current_date ELSE NoDate

\* HTTP status codes other than 200 the server answers with
BadStatusCodes == {401, 503}

-----------------------------------------------------------------------------
(* check_response: the raised exception, or NoExc and the list *)

check_response_upstream_first(r) ==
    IF r.shape = "null"
      THEN [exc |-> Raise("ResponseError", "Otvet API ne byl poluchen."),
            value |-> <<>>]
    ELSE IF r.shape = "object" /\ "error" \in r.keys
      THEN [exc |-> Raise("ResponseError",
                "Obnaruzhena problema pri poluchenii otveta ot API servera:\n"
                \o r.error),
            value |-> <<>>]
    ELSE IF r.shape = "object" /\ "code" \in r.keys
      THEN [exc |-> Raise("ResponseError",
                "Obnaruzhena problema pri poluchenii otveta ot API servera:\n"
                \o r.code),
            value |-> <<>>]
    ELSE IF r.shape = "array"
      THEN [exc |-> Raise("TypeError",
                "list indices must be integers or slices, not str"),
            value |-> <<>>]
    ELSE IF "homeworks" \notin r.keys
      THEN [exc |-> Raise("KeyError", "homeworks"), value |-> <<>>]
    ELSE IF r.homeworks.type # "list"
      THEN [exc |-> Raise("TypeError",
                "Otvet API otlichaetsya ot ozhidaemogo: " \o r.homeworks.repr),
            value |-> <<>>]
    ELSE [exc |-> NoExc, value |-> r.homeworks.items]

\* check_response without the tests of the error and code fields
check_response_shape_only(r) ==
    IF r.shape = "null"
      THEN [exc |-> Raise("ResponseError", "Otvet API ne byl poluchen."),
            value |-> <<>>]
    ELSE IF r.shape = "array"
      THEN [exc |-> Raise("TypeError",
                "list indices must be integers or slices, not str"),
            value |-> <<>>]
    ELSE IF "homeworks" \notin r.keys
      THEN [exc |-> Raise("KeyError", "homeworks"), value |-> <<>>]
    ELSE IF r.homeworks.type # "list"
      THEN [exc |-> Raise("TypeError",
                "Otvet API otlichaetsya ot ozhidaemogo: " \o r.homeworks.repr),
            value |-> <<>>]
    ELSE [exc |-> NoExc, value |-> r.homeworks.items]

check_response(r) ==
    IF r.shape = "null"
      THEN [exc |-> Raise("ResponseError", "Otvet API ne byl poluchen."),
            value |-> <<>>]
    \* response['homeworks'] on a list raises TypeError
    ELSE IF r.shape = "array"
      THEN [exc |-> Raise("TypeError",
                "list indices must be integers or slices, not str"),
            value |-> <<>>]
    \* response['homeworks'] on a dict without the key raises KeyError
    ELSE IF "homeworks" \notin r.keys
      THEN [exc |-> Raise("KeyError", "homeworks"), value |-> <<>>]
    ELSE IF r.homeworks.type # "list"
      THEN [exc |-> Raise("TypeError",
                "Otvet API otlichaetsya ot ozhidaemogo: " \o r.homeworks.repr),
            value |-> <<>>]
    ELSE IF r.homeworks.type = "null"
      THEN [exc |-> Raise("KeyError",
                "Otvet API ne soderzhit klyuch \"homeworks\""),
            value |-> <<>>]
    ELSE IF "error" \in r.keys
      THEN [exc |-> Raise("ResponseError",
                "Obnaruzhena problema pri poluchenii otveta ot API servera:\n"
                \o r.error),
            value |-> <<>>]
    ELSE IF "code" \in r.keys
      THEN [exc |-> Raise("ResponseError",
                "Obnaruzhena problema pri poluchenii otveta ot API servera:\n"
                \o r.code),
            value |-> <<>>]
    ELSE [exc |-> NoExc, value |-> r.homeworks.items]

(* parse_status: the raised exception, or NoExc and the text *)

\* HOMEWORK_STATUSES with the verdicts of approved and rejected exchanged
HOMEWORK_STATUSES_exchanged ==
    [approved  |-> "Rabota proverena: u revyuera est zamechaniya.",
     reviewing |-> "Rabota vzyata na proverku revyuerom.",
     rejected  |-> "Rabota proverena: revyueru vsyo ponravilos. Ura!"]

\* parse_status looking the verdict up in the exchanged table
parse_status_exchanged(h) ==
    LET homework_name   == HwGet(h, "homework_name")
        homework_status == HwGet(h, "status")
    IN  IF homework_name = None
          THEN [exc |-> Raise("KeyError",
                    "Slovar ne soderzhit klyuch \"homework_name\"."),
                value |-> None]
        ELSE IF homework_status = None
          THEN [exc |-> Raise("KeyError",
                    "Slovar ne soderzhit klyuch \"status\"."),
                value |-> None]
        ELSE IF homework_status \notin DOMAIN HOMEWORK_STATUSES_exchanged
          THEN [exc |-> Raise("KeyError",
                    "Status proverki " \o homework_status \o " neizvesten."),
                value |-> None]
        ELSE [exc |-> NoExc,
              value |-> "Izmenilsya status proverki raboty \""
                        \o homework_name \o "\". "
                        \o HOMEWORK_STATUSES_exchanged[homework_status]]

parse_status(h) ==
    LET homework_name   == HwGet(h, "homework_name")
        homework_status == HwGet(h, "status")
    IN  IF homework_name = None
          THEN [exc |-> Raise("KeyError",
                    "Slovar ne soderzhit klyuch \"homework_name\"."),
                value |-> None]
        ELSE IF homework_status = None
          THEN [exc |-> Raise("KeyError",
                    "Slovar ne soderzhit klyuch \"status\"."),
                value |-> None]
        ELSE IF homework_status \notin DOMAIN HOMEWORK_STATUSES
          THEN [exc |-> Raise("KeyError",
                    "Status proverki " \o homework_status \o " neizvesten."),
                value |-> None]
        ELSE [exc |-> NoExc,
              value |-> "Izmenilsya status proverki raboty \""
                        \o homework_name \o "\". "
                        \o HOMEWORK_STATUSES[homework_status]]

(* get_current_date: the raised exception, or NoExc and the date *)

get_current_date(r) ==
    LET current_date == GetDate(r)
    IN  IF current_date = NoDate
          THEN [exc |-> Raise("KeyError",
                    "Otvet API ne soderzhit klyuch \"current_date\"."),
                value |-> NoDate]
          ELSE [exc |-> NoExc, value |-> current_date]

(* check_tokens: FALSE when a secret is None *)

check_tokens(s) == \A n \in SecretNames : s[n] # None

-----------------------------------------------------------------------------
(* The environment: what requests and the Telegram client can answer *)

\* requests.get raised: re-raised as ServerError, or propagated as raised
TransportFailures ==
    { Raise("ServerError",
            "Ne udalos poluchit otveta ot API servera.\nPeredannyi URL: "
            \o ENDPOINT \o "\n"),
      Raise("ConnectionError", "Connection refused") }

\* json() raised: re-raised as ParsingError, or propagated as raised
BodyFailures ==
    { Raise("ParsingError", "Ne udalos rasparsit otvet servera API."),
      Raise("JSONDecodeError", "Expecting value") }

\* BadStatus without the status code in the text
BadStatus_NoCode(code) ==
    Raise("ServerError",
          "Kod otveta API ne raven 200.\nPeredannyi URL: " \o ENDPOINT)

\* the status code is not 200
BadStatus(code) ==
    Raise("ServerError",
          "Kod otveta API ne raven 200.\nPeredannyi URL: " \o ENDPOINT
          \o "\nKod otveta API: " \o ToString(code))

\* bot.send_message raised: re-raised as TelegramError, or propagated as raised
SendFailures ==
    { Raise("TelegramError", "Server Telegrama nedostupen."),
      Raise("NetworkError", "Timed out") }

-----------------------------------------------------------------------------
(* The summary of a cycle, kept for the next one *)

NoCycle ==
    [outcome |-> "none", msg |-> None, err_sent |-> FALSE,
     err_fresh |-> FALSE, status_failed |-> None, current_date |-> NoDate]

Summary(outcome) ==
    [outcome |-> outcome, msg |-> error_message, err_sent |-> err_sent,
     err_fresh |-> err_fresh, status_failed |-> status_failed,
     current_date |-> GetDate(response)]

\* the locals of a cycle before its first statement
ResetCycle ==
    /\ response' = NoResponse
    /\ homework' = <<>>
    /\ message' = None
    /\ error' = NoExc
    /\ error_message' = None
    /\ validated' = FALSE
    /\ stage' = ""
    /\ delivered' = <<>>
    /\ status_failed' = None
    /\ err_sent' = FALSE
    /\ err_fresh' = FALSE

\* control passes to `except Exception as error`
Caught(e, at) ==
    /\ error' = e
    /\ stage' = at
    /\ pc' = "except"

-----------------------------------------------------------------------------
Init ==
    /\ secrets \in [SecretNames -> {"set", None}]
    /\ pc = "start"
    /\ current_timestamp = NoDate
    /\ last_error = None
    /\ response = NoResponse
    /\ homework = <<>>
    /\ message = None
    /\ error = NoExc
    /\ error_message = None
    /\ validated = FALSE
    /\ stage = ""
    /\ fetched_with = NoDate
    /\ delivered = <<>>
    /\ status_failed = None
    /\ err_sent = FALSE
    /\ err_fresh = FALSE
    /\ prev = NoCycle
    /\ slept = 0

(* main, lines 165-168: check_tokens() is called and its result dropped;  *)
(* telegram.Bot(token=None) raises in the library versions that validate  *)
(* the token, which ends main before the loop.                            *)
Startup ==
    /\ pc = "start"
    /\ \/ /\ pc' = "loop"
          /\ current_timestamp' = StartTime
          /\ last_error' = None
       \/ /\ secrets["TELEGRAM_TOKEN"] = None
          /\ pc' = "aborted"
          /\ UNCHANGED <<current_timestamp, last_error>>
    /\ UNCHANGED <<secrets, response, homework, message, error, error_message,
                   validated, stage, fetched_with, delivered, status_failed,
                   err_sent, err_fresh, prev, slept>>

(* get_api_answer(current_timestamp) *)
GetApiAnswer ==
    /\ pc = "loop"
    /\ fetched_with' = current_timestamp
    /\ slept' = 0
    /\ \/ \E e \in TransportFailures \cup BodyFailures :
            Caught(e, "get_api_answer") /\ UNCHANGED response
       \/ \E code \in BadStatusCodes :
            Caught(BadStatus(code), "get_api_answer") /\ UNCHANGED response
       \/ \E body \in Bodies :
            /\ response' = body
            /\ pc' = "validate"
            /\ UNCHANGED <<error, stage>>
    /\ UNCHANGED <<secrets, current_timestamp, last_error, homework, message,
                   error_message, validated, delivered, status_failed,
                   err_sent, err_fresh, prev>>

\* CheckResponse sending the "no changes" line to the chat
CheckResponse_NotifiesNoChange ==
    /\ pc = "validate"
    /\ LET res == check_response(response)
       IN  IF res.exc # NoExc
             THEN /\ Caught(res.exc, "check_response")
                  /\ UNCHANGED <<homework, validated, delivered>>
             ELSE /\ homework' = res.value
                  /\ validated' = TRUE
                  /\ pc' = IF res.value # <<>> THEN "parse" ELSE "advance"
                  /\ delivered' =
                        IF res.value # <<>> THEN delivered
                        ELSE Append(delivered,
                                    "Izmenenii v statuse domashnei raboty net")
                  /\ UNCHANGED <<error, stage>>
    /\ UNCHANGED <<secrets, current_timestamp, last_error, response, message,
                   error_message, fetched_with, status_failed,
                   err_sent, err_fresh, prev, slept>>

\* CheckResponse sending again the notification that failed last cycle
CheckResponse_RetriesFailed ==
    /\ pc = "validate"
    /\ LET res == check_response(response)
       IN  IF res.exc # NoExc
             THEN /\ Caught(res.exc, "check_response")
                  /\ UNCHANGED <<homework, validated, message>>
             ELSE /\ homework' = res.value
                  /\ validated' = TRUE
                  /\ IF res.value # <<>>
                       THEN pc' = "parse" /\ UNCHANGED message
                       ELSE IF prev.status_failed # None
                         THEN pc' = "send" /\ message' = prev.status_failed
                         ELSE pc' = "advance" /\ UNCHANGED message
                  /\ UNCHANGED <<error, stage>>
    /\ UNCHANGED <<secrets, current_timestamp, last_error, response,
                   error_message, fetched_with, delivered, status_failed,
                   err_sent, err_fresh, prev, slept>>

(* homework = check_response(response); if homework != [] *)
CheckResponse ==
    /\ pc = "validate"
    /\ LET res == check_response(response)
       IN  IF res.exc # NoExc
             THEN /\ Caught(res.exc, "check_response")
                  /\ UNCHANGED <<homework, validated>>
             ELSE /\ homework' = res.value
                  /\ validated' = TRUE
                  /\ pc' = IF res.value # <<>> THEN "parse" ELSE "advance"
                  /\ UNCHANGED <<error, stage>>
    /\ UNCHANGED <<secrets, current_timestamp, last_error, response, message,
                   error_message, fetched_with, delivered, status_failed,
                   err_sent, err_fresh, prev, slept>>

\* ParseStatus formatting the last element of the list
ParseStatus_LastElement ==
    /\ pc = "parse"
    /\ LET res == parse_status(homework[Len(homework)])
       IN  IF res.exc # NoExc
             THEN /\ Caught(res.exc, "parse_status")
                  /\ UNCHANGED message
             ELSE /\ message' = res.value
                  /\ pc' = "send"
                  /\ UNCHANGED <<error, stage>>
    /\ UNCHANGED <<secrets, current_timestamp, last_error, response, homework,
                   error_message, validated, fetched_with, delivered,
                   status_failed, err_sent, err_fresh, prev, slept>>

(* message = parse_status(homework[0]) *)
ParseStatus ==
    /\ pc = "parse"
    /\ LET res == parse_status(homework[1])
       IN  IF res.exc # NoExc
             THEN /\ Caught(res.exc, "parse_status")
                  /\ UNCHANGED message
             ELSE /\ message' = res.value
                  /\ pc' = "send"
                  /\ UNCHANGED <<error, stage>>
    /\ UNCHANGED <<secrets, current_timestamp, last_error, response, homework,
                   error_message, validated, fetched_with, delivered,
                   status_failed, err_sent, err_fresh, prev, slept>>

(* send_message(bot, message) in the try block *)
SendStatus ==
    /\ pc = "send"
    /\ \/ /\ delivered' = Append(delivered, message)
          /\ pc' = "advance"
          /\ UNCHANGED <<error, stage, status_failed>>
       \/ \E e \in SendFailures :
            /\ Caught(e, "send_message")
            /\ status_failed' = message
            /\ UNCHANGED delivered
    /\ UNCHANGED <<secrets, current_timestamp, last_error, response, homework,
                   message, error_message, validated, fetched_with, err_sent,
                   err_fresh, prev, slept>>

\* AdvanceCursor taking the clock, as at startup, in place of current_date
AdvanceCursor_UsesClock ==
    /\ pc = "advance"
    /\ LET res == get_current_date(response)
       IN  IF res.exc # NoExc
             THEN /\ Caught(res.exc, "get_current_date")
                  /\ UNCHANGED current_timestamp
             ELSE /\ current_timestamp' = StartTime
                  /\ pc' = "sleep_ok"
                  /\ UNCHANGED <<error, stage>>
    /\ UNCHANGED <<secrets, last_error, response, homework, message,
                   error_message, validated, fetched_with, delivered,
                   status_failed, err_sent, err_fresh, prev, slept>>

\* AdvanceCursor checking current_date and keeping the old cursor
AdvanceCursor_KeepsCursor ==
    /\ pc = "advance"
    /\ LET res == get_current_date(response)
       IN  IF res.exc # NoExc
             THEN Caught(res.exc, "get_current_date")
             ELSE pc' = "sleep_ok" /\ UNCHANGED <<error, stage>>
    /\ UNCHANGED <<secrets, current_timestamp, last_error, response, homework,
                   message, error_message, validated, fetched_with, delivered,
                   status_failed, err_sent, err_fresh, prev, slept>>

(* current_timestamp = get_current_date(response) *)
AdvanceCursor ==
    /\ pc = "advance"
    /\ LET res == get_current_date(response)
       IN  IF res.exc # NoExc
             THEN /\ Caught(res.exc, "get_current_date")
                  /\ UNCHANGED current_timestamp
             ELSE /\ current_timestamp' = res.value
                  /\ pc' = "sleep_ok"
                  /\ UNCHANGED <<error, stage>>
    /\ UNCHANGED <<secrets, last_error, response, homework, message,
                   error_message, validated, fetched_with, delivered,
                   status_failed, err_sent, err_fresh, prev, slept>>

\* SleepAfterSuccess forgetting the last error after a good cycle
SleepAfterSuccess_ClearsLastError ==
    /\ pc = "sleep_ok"
    /\ slept' = RETRY_TIME
    /\ prev' = Summary("ok")
    /\ ResetCycle
    /\ pc' = "loop"
    /\ last_error' = None
    /\ UNCHANGED <<secrets, current_timestamp, fetched_with>>

(* time.sleep(RETRY_TIME) of the try block; the next iteration starts *)
SleepAfterSuccess ==
    /\ pc = "sleep_ok"
    /\ slept' = RETRY_TIME
    /\ prev' = Summary("ok")
    /\ ResetCycle
    /\ pc' = "loop"
    /\ UNCHANGED <<secrets, current_timestamp, last_error, fetched_with>>

\* HandleError without the comparison with last_error
HandleError_NoDedup ==
    /\ pc = "except"
    /\ LET msg == "Sboi v rabote programmy: " \o Str(error)
       IN  /\ error_message' = msg
           /\ err_fresh' = (msg # last_error)
           /\ \/ /\ delivered' = Append(delivered, msg)
                 /\ err_sent' = TRUE
                 /\ last_error' = msg
                 /\ pc' = "sleep_err"
              \/ /\ pc' = "crashed"
                 /\ UNCHANGED <<delivered, err_sent, last_error>>
    /\ UNCHANGED <<secrets, current_timestamp, response, homework, message,
                   error, validated, stage, fetched_with, status_failed, prev,
                   slept>>

\* HandleError taking current_date of the response in the failure path too
HandleError_AdvancesCursor ==
    /\ pc = "except"
    /\ LET msg == "Sboi v rabote programmy: " \o Str(error)
       IN  /\ error_message' = msg
           /\ err_fresh' = (msg # last_error)
           /\ IF msg # last_error
                THEN \/ /\ delivered' = Append(delivered, msg)
                        /\ err_sent' = TRUE
                        /\ last_error' = msg
                        /\ pc' = "sleep_err"
                     \/ /\ pc' = "crashed"
                        /\ UNCHANGED <<delivered, err_sent, last_error>>
                ELSE /\ last_error' = msg
                     /\ pc' = "sleep_err"
                     /\ UNCHANGED <<delivered, err_sent>>
    /\ current_timestamp' = IF "current_date" \in response.keys
                              THEN response.current_date
                              ELSE current_timestamp
    /\ UNCHANGED <<secrets, response, homework, message,
                   error, validated, stage, fetched_with, status_failed, prev,
                   slept>>

(* except Exception as error: the message, the notification, last_error.  *)
(* send_message raises when the delivery fails (SendFailures); raised in  *)
(* the handler, the exception leaves the handler and main.                *)
HandleError ==
    /\ pc = "except"
    /\ LET msg == "Sboi v rabote programmy: " \o Str(error)
       IN  /\ error_message' = msg
           /\ err_fresh' = (msg # last_error)
           /\ IF msg # last_error
                THEN \/ /\ delivered' = Append(delivered, msg)
                        /\ err_sent' = TRUE
                        /\ last_error' = msg
                        /\ pc' = "sleep_err"
                     \/ /\ pc' = "crashed"
                        /\ UNCHANGED <<delivered, err_sent, last_error>>
                ELSE /\ last_error' = msg
                     /\ pc' = "sleep_err"
                     /\ UNCHANGED <<delivered, err_sent>>
    /\ UNCHANGED <<secrets, current_timestamp, response, homework, message,
                   error, validated, stage, fetched_with, status_failed, prev,
                   slept>>

\* SleepAfterError without the sleep
SleepAfterError_Skipped ==
    /\ pc = "sleep_err"
    /\ prev' = Summary("fail")
    /\ ResetCycle
    /\ pc' = "loop"
    /\ UNCHANGED <<secrets, current_timestamp, last_error, fetched_with, slept>>

(* time.sleep(RETRY_TIME) of the handler; the next iteration starts *)
SleepAfterError ==
    /\ pc = "sleep_err"
    /\ slept' = RETRY_TIME
    /\ prev' = Summary("fail")
    /\ ResetCycle
    /\ pc' = "loop"
    /\ UNCHANGED <<secrets, current_timestamp, last_error, fetched_with>>

Next ==
    \/ Startup
    \/ GetApiAnswer
    \/ CheckResponse
    \/ ParseStatus
    \/ SendStatus
    \/ AdvanceCursor
    \/ SleepAfterSuccess
    \/ HandleError
    \/ SleepAfterError

Spec == Init /\ [][Next]_vars

-----------------------------------------------------------------------------
(* Properties *)

\* the cycle reached one of its two sleeps
CycleDone == pc \in {"sleep_ok", "sleep_err"}

\* the number of deliveries of m in this cycle
Deliveries(m) == Cardinality({ i \in DOMAIN delivered : delivered[i] = m })

\* C1: the loop has no terminal state: no sequence of cycle outcomes, a
\* failed delivery of an error notification included, ends the process.
C1_LoopNeverEnds == check_tokens(secrets) => pc # "crashed"

\* C2: when one of the three secrets is absent main never enters the loop:
\* no request is issued and no message is sent.
C2_NoLoopWithoutSecrets ==
    ~check_tokens(secrets) =>
        /\ pc \in {"start", "aborted"}
        /\ fetched_with = NoDate
        /\ delivered = <<>>

\* C3: of two consecutive failed cycles with the same failure message the
\* second delivers nothing and the pair delivers the message once (the first
\* delivers it when it is new to last_error); a failed cycle whose message
\* differs from the one of the failed cycle before it delivers its message.
C3_ErrorsDeduplicated ==
    (pc = "sleep_err" /\ prev.outcome = "fail") =>
        IF error_message = prev.msg
          THEN /\ ~err_sent
               /\ Deliveries(error_message) = 0
               /\ prev.err_fresh => prev.err_sent
               /\ ~prev.err_fresh => ~prev.err_sent
          ELSE /\ err_sent
               /\ Deliveries(error_message) = 1

C3_Witness ==
    /\ check_tokens(secrets)
    /\ pc = "sleep_err"
    /\ prev.outcome = "fail"
    /\ prev.msg = error_message
    /\ prev.err_sent
    /\ ~err_sent

\* C4: every cycle, successful or failed, sleeps RETRY_TIME before the next
\* request is issued.
C4_SleepBeforeNextFetch ==
    (pc = "loop" /\ prev.outcome # "none") => slept = RETRY_TIME

C4_Witness ==
    /\ check_tokens(secrets)
    /\ pc = "loop"
    /\ prev.outcome = "fail"
    /\ slept = RETRY_TIME

\* the response of end-to-end scenario 1
Scenario1 ==
    JsonObject({"homeworks", "current_date"},
               ListValue(<<Homework({"homework_name", "status"},
                                    "proj1", "approved")>>),
               1000)

\* C5: after a successful cycle the cursor equals the current_date of the
\* response of that cycle and the next request is issued with it; scenario 1
\* delivers the approved notification of proj1 and sets the cursor to 1000.
C5_CursorAdvances ==
    /\ pc = "sleep_ok" =>
          /\ "current_date" \in response.keys
          /\ current_timestamp = response.current_date
    /\ (pc = "sleep_ok" /\ response = Scenario1) =>
          /\ delivered = << "Izmenilsya status proverki raboty \"proj1\". "
                            \o "Rabota proverena: revyueru vsyo ponravilos. Ura!" >>
          /\ current_timestamp = 1000
    /\ (prev.outcome = "ok" /\ pc \notin {"start", "aborted", "loop"}) =>
          fetched_with = prev.current_date

C5_Witness ==
    /\ check_tokens(secrets)
    /\ pc = "sleep_ok"
    /\ response = Scenario1
    /\ fetched_with # 1000

\* C6 as stated: whenever the validated list is empty the cycle sends no
\* message, advances the cursor to current_date and goes to the sleep.
C6_EmptyListSilent ==
    (check_tokens(secrets) /\ CycleDone /\ validated /\ homework = <<>>) =>
        /\ delivered = <<>>
        /\ pc = "sleep_ok"
        /\ current_timestamp = GetDate(response)

\* C6 amended: when the validated list is empty the cycle sends no status
\* notification; when the response also carries current_date it sends no
\* message at all, advances the cursor to current_date and goes to the sleep.
C6_EmptyListSilentWithDate ==
    (validated /\ homework = <<>>) =>
        /\ message = None
        /\ status_failed = None
        /\ \A i \in DOMAIN delivered : delivered[i] = error_message
        /\ "current_date" \in response.keys =>
              /\ delivered = <<>>
              /\ pc \in {"advance", "sleep_ok"}
              /\ pc = "sleep_ok" => current_timestamp = response.current_date

C6_Witness ==
    /\ check_tokens(secrets)
    /\ validated
    /\ homework = <<>>
    /\ pc = "sleep_ok"
    /\ current_timestamp = 2000
    /\ fetched_with # 2000

C8_LastErrorIsCycleMessage ==
    (check_tokens(secrets) /\ pc \in {"sleep_err", "crashed"}) =>
        last_error = error_message

\* C9: last_error changes only in the handler of a failed cycle whose message
\* differs from it; a successful cycle leaves it alone, and a failure equal to
\* last_error delivers nothing, also after successful cycles in between.
C9_LastErrorFrame ==
    [][ /\ last_error' # last_error =>
              /\ pc = "except"
              /\ pc' = "sleep_err"
              /\ error_message' # last_error
              /\ last_error' = error_message'
        /\ (pc = "except" /\ pc' # "crashed" /\ error_message' = last_error) =>
              /\ delivered' = delivered
              /\ ~err_sent'
        /\ (pc = "loop" /\ prev.outcome = "ok" /\ pc' = "except") =>
              last_error' = last_error
      ]_vars

C9_Witness ==
    /\ check_tokens(secrets)
    /\ pc = "sleep_err"
    /\ prev.outcome = "ok"
    /\ ~err_fresh
    /\ delivered = <<>>

\* C10: for a response whose homeworks is absent or is not a list,
\* check_response raises the schema error (KeyError for the absent key,
\* TypeError for the wrong type) whatever other fields are present, and
\* returns nothing.
C10_SchemaViolation ==
    ( /\ response.shape \in {"object", "array"}
      /\ "homeworks" \notin response.keys \/ response.homeworks.type # "list"
      /\ pc # "validate" ) =>
        /\ ~validated
        /\ homework = <<>>
        /\ stage = "check_response"
        /\ error.kind = IF response.shape = "object"
                           /\ "homeworks" \notin response.keys
                          THEN "KeyError" ELSE "TypeError"

C10_Witness ==
    /\ check_tokens(secrets)
    /\ response.shape = "object"
    /\ "homeworks" \notin response.keys
    /\ {"error", "code", "current_date"} \subseteq response.keys
    /\ stage = "check_response"
    /\ error.kind = "KeyError"

\* the response carries an error field or a code field
CarriesUpstreamError ==
    /\ response.shape = "object"
    /\ "error" \in response.keys \/ "code" \in response.keys

\* no status notification was formatted, sent or tried in this cycle
NoStatusNotification ==
    /\ message = None
    /\ status_failed = None
    /\ \A i \in DOMAIN delivered : delivered[i] = error_message

\* C11 as stated: every response that carries error or code makes
\* check_response raise ResponseError, and the cycle formats and sends no
\* status notification and leaves the cursor alone.
C11_UpstreamErrorAlways ==
    (check_tokens(secrets) /\ CarriesUpstreamError /\ pc # "validate") =>
        /\ stage = "check_response"
        /\ error.kind = "ResponseError"
        /\ ~validated
        /\ NoStatusNotification
        /\ current_timestamp = fetched_with

\* C11 amended: every response that carries error or code makes
\* check_response raise: ResponseError with the text of the field when
\* homeworks is a list, the schema error (C10) when it is absent or not a
\* list; the cycle formats and sends no status notification and leaves the
\* cursor alone.
C11_UpstreamErrorOnList ==
    (CarriesUpstreamError /\ pc # "validate") =>
        /\ stage = "check_response"
        /\ ~validated
        /\ homework = <<>>
        /\ NoStatusNotification
        /\ current_timestamp = fetched_with
        /\ IF "homeworks" \in response.keys /\ response.homeworks.type = "list"
             THEN error =
                    [kind |-> "ResponseError",
                     text |-> "Obnaruzhena problema pri poluchenii otveta ot API servera:\n"
                              \o (IF "error" \in response.keys
                                    THEN "maintenance"
                                    ELSE "not_authenticated")]
             ELSE error.kind \in {"KeyError", "TypeError"}

C11_Witness ==
    /\ check_tokens(secrets)
    /\ "error" \in response.keys
    /\ "current_date" \in response.keys
    /\ "homeworks" \in response.keys
    /\ response.homeworks.type = "list"
    /\ Len(response.homeworks.items) > 0
    /\ parse_status(response.homeworks.items[1]).exc = NoExc
    /\ pc = "sleep_err"
    /\ error.kind = "ResponseError"
    /\ delivered = <<error_message>>

\* the verdict the bot reports for each known status
ExpectedVerdict(status) ==
    CASE status = "approved"  -> "Rabota proverena: revyueru vsyo ponravilos. Ura!"
      [] status = "reviewing" -> "Rabota vzyata na proverku revyuerom."
      [] status = "rejected"  -> "Rabota proverena: u revyuera est zamechaniya."

\* C12: for a record with homework_name and a status among approved,
\* reviewing, rejected, parse_status returns the text made of the name and of
\* the verdict of that status; for any other status, and for a record without
\* homework_name or without status, it raises and returns no text.
C12_ParseStatus ==
    (validated /\ homework # <<>> /\ pc # "parse") =>
        LET h == homework[1]
        IN  IF /\ {"homework_name", "status"} \subseteq h.keys
               /\ h.status \in {"approved", "reviewing", "rejected"}
              THEN /\ message = "Izmenilsya status proverki raboty \""
                                \o h.homework_name \o "\". "
                                \o ExpectedVerdict(h.status)
                   /\ stage # "parse_status"
              ELSE /\ message = None
                   /\ stage = "parse_status"
                   /\ error.kind = "KeyError"
                   /\ NoStatusNotification

C12_Witness ==
    /\ check_tokens(secrets)
    /\ pc = "sleep_ok"
    /\ homework # <<>>
    /\ homework[1].status = "reviewing"
    /\ homework[1].homework_name = "proj2"
    /\ delivered = << "Izmenilsya status proverki raboty \"proj2\". "
                      \o "Rabota vzyata na proverku revyuerom." >>

\* the text get_api_answer raises for a status code other than 200
BadStatusText(code) ==
    "Kod otveta API ne raven 200.\nPeredannyi URL: "
    \o "https://practicum.yandex.ru/api/user_api/homework_statuses/"
    \o "\nKod otveta API: " \o ToString(code)

\* get_api_answer raised for the status code of the answer
RaisedForStatus ==
    /\ stage = "get_api_answer"
    /\ error.kind = "ServerError"
    /\ error \notin TransportFailures

\* C13: for a status code other than 200 get_api_answer raises with a text
\* that carries the code and parses no body; the loop delivers the failure
\* message when it is new, delivers nothing in a failed cycle that directly
\* follows a failed cycle with the same code, and delivers again in a failed
\* cycle that follows a failed cycle with another code.
C13_BadStatusNotified ==
    RaisedForStatus =>
        /\ \E code \in BadStatusCodes : error.text = BadStatusText(code)
        /\ response = NoResponse
        /\ ~validated
        /\ NoStatusNotification
        /\ pc = "sleep_err" =>
              /\ error_message = "Sboi v rabote programmy: " \o error.text
              /\ err_sent = err_fresh
              /\ Deliveries(error_message) = IF err_sent THEN 1 ELSE 0
              /\ prev.outcome = "none" => err_sent
              /\ prev.outcome = "fail" => (err_sent <=> prev.msg # error_message)
              /\ \A c1, c2 \in BadStatusCodes :
                    ( /\ c1 # c2
                      /\ prev.outcome = "fail"
                      /\ prev.msg = "Sboi v rabote programmy: " \o BadStatusText(c1)
                      /\ error.text = BadStatusText(c2) ) => err_sent

C13_Witness ==
    /\ check_tokens(secrets)
    /\ pc = "sleep_err"
    /\ stage = "get_api_answer"
    /\ error.text = BadStatusText(401)
    /\ prev.outcome = "fail"
    /\ prev.msg = "Sboi v rabote programmy: " \o BadStatusText(503)
    /\ ~prev.err_sent
    /\ delivered = <<error_message>>

\* C14: when the validated response lacks current_date the cycle fails as any
\* other: the handler builds the failure message, sends it if it differs from
\* last_error, the cursor stays, and the loop sleeps and goes on.
C14_MissingDateIsCycleError ==
    (check_tokens(secrets) /\ stage = "get_current_date" /\ pc # "except") =>
        /\ validated
        /\ "current_date" \notin response.keys
        /\ error_message = "Sboi v rabote programmy: "
                           \o "'Otvet API ne soderzhit klyuch \"current_date\".'"
        /\ err_sent = err_fresh
        /\ current_timestamp = fetched_with
        /\ pc = "sleep_err"

\* C15: the cursor changes only when a cycle succeeds (and at startup): a
\* cycle that fails at the request, the validation, the formatting, the
\* delivery of the status notification or get_current_date leaves
\* current_timestamp as it was, so the next request carries the cursor of the
\* last successful cycle.
C15_CursorFrame ==
    [][ /\ current_timestamp' # current_timestamp =>
              \/ pc = "start"
              \/ /\ pc = "advance"
                 /\ pc' = "sleep_ok"
                 /\ current_timestamp' = response.current_date
        /\ pc' \in {"except", "sleep_err", "crashed"} =>
              current_timestamp' = fetched_with'
        /\ (pc' = "sleep_err" /\ prev.outcome = "ok") =>
              current_timestamp' = prev.current_date
        /\ (pc = "sleep_err" /\ pc' = "loop") =>
              current_timestamp' = fetched_with
      ]_vars

C15_Witness ==
    /\ check_tokens(secrets)
    /\ pc = "sleep_err"
    /\ stage = "send_message"
    /\ prev.outcome = "ok"
    /\ "current_date" \in response.keys
    /\ response.current_date # current_timestamp
    /\ current_timestamp = prev.current_date

\* C16: in a cycle with a non-empty validated list the first element, and
\* only it, is formatted, and at most one status notification is sent, for
\* it; no later element is formatted or notified, whatever the list holds.
C16_OnlyFirstElement ==
    (validated /\ homework # <<>> /\ pc # "parse") =>
        /\ message = parse_status(homework[1]).value
        /\ stage = "parse_status" => error = parse_status(homework[1]).exc
        /\ \A i \in DOMAIN delivered :
              delivered[i] = message \/ delivered[i] = error_message
        /\ message # None => Deliveries(message) <= 1
        /\ \A i \in 2..Len(homework) :
              LET later == parse_status(homework[i])
              IN  /\ (later.value # None /\ later.value # message) =>
                        /\ Deliveries(later.value) = 0
                        /\ status_failed # later.value
                  /\ (later.exc # NoExc
                      /\ later.exc # parse_status(homework[1]).exc) =>
                        error # later.exc

C16_Witness ==
    /\ check_tokens(secrets)
    /\ pc = "sleep_ok"
    /\ Len(homework) = 2
    /\ homework[1].status = "approved"
    /\ homework[2].status = "rejected"
    /\ delivered = << "Izmenilsya status proverki raboty \"proj1\". "
                      \o "Rabota proverena: revyueru vsyo ponravilos. Ura!" >>

\* the status notification of this cycle reached the chat
StatusDelivered == message # None /\ Deliveries(message) = 1

\* C17 as stated: whenever a status notification is delivered in a cycle, the
\* cursor is advanced to the current_date of the response in that cycle.
C17_NotifiedImpliesAdvanced ==
    (check_tokens(secrets) /\ StatusDelivered /\ pc # "advance") =>
        /\ pc = "sleep_ok"
        /\ current_timestamp = GetDate(response)

\* C17 amended: whenever a status notification is delivered in a cycle whose
\* response carries current_date, the cursor is advanced to that current_date
\* in the same cycle; when the response lacks current_date the cycle fails
\* after the delivery and the cursor stays the one of the request.
C17_NotifiedAdvancesWithDate ==
    StatusDelivered =>
        IF "current_date" \in response.keys
          THEN /\ pc \in {"advance", "sleep_ok"}
               /\ pc = "sleep_ok" => current_timestamp = response.current_date
          ELSE /\ pc \in {"advance", "except", "sleep_err", "crashed"}
               /\ pc # "advance" => stage = "get_current_date"
               /\ current_timestamp = fetched_with

C17_Witness ==
    /\ check_tokens(secrets)
    /\ pc = "sleep_ok"
    /\ delivered = <<message>>
    /\ message # None
    /\ fetched_with = 1000
    /\ current_timestamp = 2000

====
